---- MODULE Spec2Model ----
(***************************************************************************)
(* Admission control of zeno-gateway: the rate-limit interceptor           *)
(* (src/src/rules.rs), the per-client state and the global state manager   *)
(* (src/src/client.rs) and the address extraction (src/src/utils.rs).      *)
(*                                                                         *)
(* Heap objects (Arc<ClientState>, SharedBucket) are modelled by their     *)
(* index in the sequences `sessions` and `buckets`; 0 is "no object".      *)
(* Every access to shared memory of an interceptor call is one step of     *)
(* the task that runs it, so that calls on a multi-threaded runtime        *)
(* interleave as the code allows.  Time is in seconds.                     *)
(***************************************************************************)
EXTENDS Integers, Sequences, FiniteSets, TLC

VARIABLES
    now,                 \* the clock read by Instant::now()
    ticks,               \* how often the clock has advanced
    store,               \* GLOBAL_STATE.store: uuid -> [sess, accessed]
    sessions,            \* the ClientState objects ever constructed
    buckets,             \* the rate limiters ever constructed
    ACTIVE_CONNECTIONS,  \* uuid -> Instant, Absent when not in the map
    tasks,               \* the interceptor calls in flight, one per task
    sweep,               \* the run of cleanup_expired_connections
    calls,               \* interceptor calls started so far
    conn,                \* the run of release_conn, force_disconnect or
                         \* is_connection_valid
    resolved             \* a request and the address extract_client_ip gave

vars == <<now, ticks, store, sessions, buckets, ACTIVE_CONNECTIONS, tasks, sweep, calls,
          conn, resolved>>

-----------------------------------------------------------------------------
(* Bounds of the model *)

MaxTicks == 1
MaxCalls == 3
MaxSeqCalls == 2
MaxBurstCalls == 5

MaxIsoCalls == 6

MaxLiveCalls == 2

Tasks == {1, 2}
TimeSteps == {60, 61, 600, 601}

-----------------------------------------------------------------------------
(* Program constants *)

UuidLen == 128
MinIpLen == 7
MaxIpLen == 45
TimeToIdle == 600
ExpireAfter == 60

None == "None"
Absent == -1

\* the text of the uuid metadata: which text it is and its length in
\* characters; NoUuid when the request carries none
Uuid(name, len) == [name |-> name, len |-> len]
NoUuid == Uuid("None", 0)

UuidU == Uuid("U", UuidLen)
UuidV == Uuid("V", UuidLen)
UuidShort == Uuid("S", UuidLen - 1)
UuidLong == Uuid("L", UuidLen + 1)
Uuids == {UuidU, UuidV, UuidShort, UuidLong}

Max(a, b) == IF a >= b THEN a ELSE b

-----------------------------------------------------------------------------
(* rules.rs: the rule registry.  A quota is governor's pair of the         *)
(* replenish interval of one cell (seconds) and the burst size.            *)

RULE_REGISTRY ==
    [metadata |-> [replenish |-> 3,   burst |-> 5, stream_limit |-> 100],
     ankr     |-> [replenish |-> 360, burst |-> 3, stream_limit |-> 50],
     standard |-> [replenish |-> 6,   burst |-> 5, stream_limit |-> 200]]

Services == DOMAIN RULE_REGISTRY

\* RuleRegistry::get: whether it returns Some(rule), and the rule
HasRule(name) == name \in Services

RuleRegistryGet(name) == RULE_REGISTRY[name]

\* the rule names of the interceptor instances, one of them not registered
RuleNames == {"ankr", "metadata", "nosuch"}

KnownRuleNames == {"ankr", "metadata"}

-----------------------------------------------------------------------------
(* utils.rs: extract_client_ip.  x-real-ip and the peer address are None   *)
(* or their text; x-forwarded-for is the sequence of its comma-separated,  *)
(* trimmed items and forwarded the sequence of its ';'-separated pairs,    *)
(* each [isFor, segs]: whether it starts with "for=" and the               *)
(* ':'-separated segments of the rest; both are <<>> when the header is    *)
(* missing.                                                                *)

\* str::parse::<IpAddr>() followed by to_string(): the canonical text
IpCanon ==
    [x \in {"10.0.0.1", "10.0.0.2", "172.16.0.1", "0.0.0.0", "::1", "2001:db8::1",
            "2001:DB8::1"}
        |-> IF x = "2001:DB8::1" THEN "2001:db8::1" ELSE x]

ParseIp(s) == IF s \in DOMAIN IpCanon THEN IpCanon[s] ELSE None

RECURSIVE ForwardedIp(_)
ForwardedIp(pairs) ==
    IF pairs = <<>> THEN None
    ELSE LET pair == Head(pairs)
         IN  IF pair.isFor /\ ParseIp(Head(pair.segs)) # None
             THEN ParseIp(Head(pair.segs))
             ELSE ForwardedIp(Tail(pairs))

extract_client_ip(req) ==
    IF req.xff # <<>> /\ ParseIp(Head(req.xff)) # None
    THEN ParseIp(Head(req.xff))
    ELSE IF req.real_ip # None /\ ParseIp(req.real_ip) # None
    THEN ParseIp(req.real_ip)
    ELSE IF req.forwarded # <<>> /\ ForwardedIp(req.forwarded) # None
    THEN ForwardedIp(req.forwarded)
    ELSE IF req.peer # None
    THEN req.peer
    ELSE "0.0.0.0"

Req(uuid, xff, real_ip, forwarded, peer) ==
    [uuid |-> uuid, xff |-> xff, real_ip |-> real_ip, forwarded |-> forwarded, peer |-> peer]

\* the requests of one client from two addresses
SameClientRequests ==
    { Req(UuidU, <<"10.0.0.1", "172.16.0.1">>, None, <<>>, "172.16.0.1"),
      Req(UuidU, <<>>, None, <<>>, "10.0.0.2") }

\* the requests the environment sends
Requests ==
    SameClientRequests \cup
    {
      Req(UuidV, <<"unknown">>, "10.0.0.1", <<>>, "172.16.0.1"),
      Req(UuidV, <<>>, "bad", <<[isFor |-> FALSE, segs |-> <<"proto=http">>],
                                  [isFor |-> TRUE, segs |-> <<"10.0.0.2", "4711">>]>>, "172.16.0.1"),
      Req(NoUuid, <<>>, None, <<>>, "10.0.0.1"),
      Req(UuidShort, <<>>, None, <<>>, "10.0.0.1"),
      Req(UuidLong, <<>>, None, <<>>, "10.0.0.1"),
      Req(UuidV, <<>>, None, <<>>, "::1") }


-----------------------------------------------------------------------------
(* client.rs: the session store (moka Cache with time_to_idle) *)

NoEntry == [sess |-> 0, accessed |-> 0]

\* a store whose entries never expire
PresentForever(u) == store[u].sess # 0

\* an entry is returned by get / get_with unless it has been idle for longer
\* than time_to_idle
Present(u) == store[u].sess # 0 /\ now - store[u].accessed <= TimeToIdle

\* ClientState::new()
NewClientState ==
    [bound_ip |-> None, is_connected |-> FALSE,
     buckets |-> [s \in Services |-> 0], last_active |-> now]

\* RateLimiter::direct(quota): a full bucket; tat is the theoretical arrival
\* time of the generic cell rate algorithm.  born and checks record when the
\* bucket was built and how often check() was called on it.
NewBucket(rule) ==
    [tat |-> now, replenish |-> rule.replenish, burst |-> rule.burst,
     born |-> now, checks |-> 0]

\* the cells a bucket would hand out at this instant
Tokens(b) ==
    (now + buckets[b].replenish * buckets[b].burst - Max(buckets[b].tat, now))
        \div buckets[b].replenish

\* a limiter that hands out one cell more than the burst
CheckOkOneMore(b) ==
    buckets[b].tat - buckets[b].replenish * buckets[b].burst <= now

\* RateLimiter::check: whether a cell is available
CheckOk(b) ==
    buckets[b].tat + buckets[b].replenish - buckets[b].replenish * buckets[b].burst <= now

\* a limiter that takes two cells at a time
CheckTakeTwo(b) ==
    [buckets[b] EXCEPT !.tat = Max(buckets[b].tat, now) + 2 * buckets[b].replenish]

\* RateLimiter::check: the bucket after a cell was taken
CheckTake(b) == [buckets[b] EXCEPT !.tat = Max(buckets[b].tat, now) + buckets[b].replenish]

\* a provisioned session left unbound
ProvisionedStateUnbound(ip, name, b) ==
    [bound_ip |-> None, is_connected |-> TRUE,
     buckets |-> [s \in Services |-> IF s = name THEN b ELSE 0],
     last_active |-> now]

\* the session init_client_state builds (client.rs 136-145): bound to the
\* caller, connected, holding bucket b for the service
ProvisionedState(ip, name, b) ==
    [bound_ip |-> ip, is_connected |-> TRUE,
     buckets |-> [s \in Services |-> IF s = name THEN b ELSE 0],
     last_active |-> now]

-----------------------------------------------------------------------------
(* The interceptor call of a task *)

\* pc .. ts are the call's position and locals; err is the status the
\* callee returned and result the status of the call.  The rest records
\* what the call met: prior and age, the store's entry for the uuid and
\* its idle time at the lookup; ordinal and since, the number of its
\* check() on the bucket and the bucket's age then; doneAt, when it ended;
\* on and found, the session whose bound_ip it locked and the value found.
IdleTask ==
    [pc |-> "idle", rule |-> None, uuid |-> NoUuid, ip |-> None,
     branch |-> None, client |-> 0, bucket |-> 0, state |-> 0, ts |-> 0,
     err |-> None, result |-> None,
     prior |-> 0, age |-> 0, ordinal |-> 0, since |-> 0, doneAt |-> 0,
     on |-> 0, found |-> None]

Free(t) == tasks[t].pc \in {"idle", "done"}

\* the call returns; its references are dropped
Finish(t, err, result) ==
    tasks' = [tasks EXCEPT ![t] = [tasks[t] EXCEPT !.pc = "done", !.client = 0, !.bucket = 0,
                                                    !.state = 0, !.ts = 0,
                                                    !.err = err, !.result = result,
                                                    !.doneAt = now]]

Goto(t, pc) == tasks' = [tasks EXCEPT ![t].pc = pc]

\* a length check that lets longer uuids pass
UuidOkAtLeast(uuid) == uuid.len >= UuidLen

\* rules.rs 93: uuid.len() != 128 is rejected
UuidOk(uuid) == uuid.len = UuidLen

\* a check that also refuses the text the extractor returns for no address
IpOkNoPlaceholder(ip) ==
    ~(Len(ip) > MaxIpLen \/ Len(ip) < MinIpLen) /\ ip # "0.0.0.0"

\* rules.rs 98: ip.len() > 45 || ip.len() < 7 is rejected
IpOk(ip) == ~(Len(ip) > MaxIpLen \/ Len(ip) < MinIpLen)

\* rules.rs 82-100: the checks made before the future is built
call_validate(t, req, rule, limit) ==
    /\ Free(t)
    /\ \A o \in Tasks : o < t => ~Free(o)
    /\ calls < limit
    /\ calls' = calls + 1
    /\ LET fresh == [IdleTask EXCEPT !.rule = rule, !.uuid = req.uuid]
       IN  IF req.uuid = NoUuid \/ ~UuidOk(req.uuid)
           THEN tasks' = [tasks EXCEPT ![t] =
                    [fresh EXCEPT !.pc = "done", !.doneAt = now,
                                  !.err = "InvalidArgument",
                                  !.result = "InvalidArgument"]]
           ELSE LET ip == extract_client_ip(req)
                IN  IF ~IpOk(ip)
                    THEN tasks' = [tasks EXCEPT ![t] =
                             [fresh EXCEPT !.pc = "done", !.ip = ip, !.doneAt = now,
                                           !.err = "InvalidArgument",
                                           !.result = "InvalidArgument"]]
                    ELSE tasks' = [tasks EXCEPT ![t] =
                             [fresh EXCEPT !.pc = "lookup", !.ip = ip]]
    /\ UNCHANGED <<now, ticks, store, sessions, buckets, ACTIVE_CONNECTIONS, sweep, conn, resolved>>

\* rules.rs 104-105, 110: GLOBAL_STATE.get_store().get(&uuid)
call_lookup(t) ==
    /\ tasks[t].pc = "lookup"
    /\ LET u == tasks[t].uuid
           met == [tasks[t] EXCEPT !.prior = store[u].sess, !.age = now - store[u].accessed]
       IN  IF Present(u)
           THEN /\ store' = [store EXCEPT ![u].accessed = now]
                /\ tasks' = [tasks EXCEPT ![t] =
                       [met EXCEPT !.pc = "get_bucket", !.branch = "update",
                                   !.client = store[u].sess]]
           ELSE /\ store' = store
                /\ tasks' = [tasks EXCEPT ![t] = [met EXCEPT !.pc = "init", !.branch = "init"]]
    /\ UNCHANGED <<now, ticks, sessions, buckets, ACTIVE_CONNECTIONS, sweep, calls, conn, resolved>>

\* a lookup that builds a bucket before it asks the registry for the rule
get_bucket_for_service_eager(t) ==
    /\ tasks[t].pc = "get_bucket"
    /\ LET c == tasks[t].client
           name == tasks[t].rule
           held == IF name \in Services THEN sessions[c].buckets[name] ELSE 0
       IN  IF held # 0
           THEN /\ tasks' = [tasks EXCEPT ![t].pc = "check", ![t].bucket = held]
                /\ buckets' = buckets
           ELSE IF ~HasRule(name)
           THEN /\ Finish(t, "Internal", "ResourceExhausted")
                /\ buckets' = Append(buckets, NewBucket(RULE_REGISTRY.standard))
           ELSE /\ buckets' = Append(buckets, NewBucket(RuleRegistryGet(name)))
                /\ tasks' = [tasks EXCEPT ![t].pc = "bucket_insert",
                                          ![t].bucket = Len(buckets) + 1]
    /\ UNCHANGED <<now, ticks, store, sessions, ACTIVE_CONNECTIONS, sweep, calls, conn, resolved>>

\* client.rs 64-75: the lookup of the bucket, and the construction of a new
\* one when the session has none; rules.rs 106-107 maps any error of
\* try_consume_token to resource_exhausted
get_bucket_for_service(t) ==
    /\ tasks[t].pc = "get_bucket"
    /\ LET c == tasks[t].client
           name == tasks[t].rule
           held == IF name \in Services THEN sessions[c].buckets[name] ELSE 0
       IN  IF held # 0
           THEN /\ tasks' = [tasks EXCEPT ![t].pc = "check", ![t].bucket = held]
                /\ buckets' = buckets
           ELSE IF ~HasRule(name)
           THEN /\ Finish(t, "Internal", "ResourceExhausted")
                /\ buckets' = buckets
           ELSE /\ buckets' = Append(buckets, NewBucket(RuleRegistryGet(name)))
                /\ tasks' = [tasks EXCEPT ![t].pc = "bucket_insert",
                                          ![t].bucket = Len(buckets) + 1]
    /\ UNCHANGED <<now, ticks, store, sessions, ACTIVE_CONNECTIONS, sweep, calls, conn, resolved>>

\* an insertion that stores the new bucket under every service
bucket_insert_shared(t) ==
    /\ tasks[t].pc = "bucket_insert"
    /\ sessions' = [sessions EXCEPT ![tasks[t].client].buckets =
                       [x \in Services |-> tasks[t].bucket]]
    /\ Goto(t, "check")
    /\ UNCHANGED <<now, ticks, store, buckets, ACTIVE_CONNECTIONS, sweep, calls, conn, resolved>>

\* client.rs 76: self.buckets.insert(service_name, new_bucket)
bucket_insert(t) ==
    /\ tasks[t].pc = "bucket_insert"
    /\ sessions' = [sessions EXCEPT ![tasks[t].client].buckets[tasks[t].rule] = tasks[t].bucket]
    /\ Goto(t, "check")
    /\ UNCHANGED <<now, ticks, store, buckets, ACTIVE_CONNECTIONS, sweep, calls, conn, resolved>>

\* a check that looks at the bound address first and takes no token from
\* a caller it is going to reject
try_consume_token_verified(t) ==
    /\ tasks[t].pc = "check"
    /\ LET b == tasks[t].bucket
           n == buckets[b].checks + 1
           met == [tasks[t] EXCEPT !.ordinal = n, !.since = now - buckets[b].born]
       IN  IF sessions[tasks[t].client].bound_ip \notin {None, tasks[t].ip}
           THEN /\ buckets' = [buckets EXCEPT ![b].checks = n]
                /\ tasks' = [tasks EXCEPT ![t] = [met EXCEPT !.pc = "get_with"]]
           ELSE IF CheckOk(b)
           THEN /\ buckets' = [buckets EXCEPT ![b] = [CheckTake(b) EXCEPT !.checks = n]]
                /\ tasks' = [tasks EXCEPT ![t] = [met EXCEPT !.pc = "get_with"]]
           ELSE /\ buckets' = [buckets EXCEPT ![b].checks = n]
                /\ tasks' = [tasks EXCEPT ![t] =
                       [met EXCEPT !.pc = "done", !.client = 0, !.bucket = 0,
                                   !.err = "ResourceExhausted",
                                   !.result = "ResourceExhausted", !.doneAt = now]]
    /\ UNCHANGED <<now, ticks, store, sessions, ACTIVE_CONNECTIONS, sweep, calls, conn, resolved>>

\* a check that marks the session connected and active when it denies
try_consume_token_touch(t) ==
    /\ tasks[t].pc = "check"
    /\ LET b == tasks[t].bucket
           n == buckets[b].checks + 1
           met == [tasks[t] EXCEPT !.ordinal = n, !.since = now - buckets[b].born]
       IN  IF CheckOk(b)
           THEN /\ buckets' = [buckets EXCEPT ![b] = [CheckTake(b) EXCEPT !.checks = n]]
                /\ tasks' = [tasks EXCEPT ![t] = [met EXCEPT !.pc = "get_with"]]
                /\ sessions' = sessions
           ELSE /\ buckets' = [buckets EXCEPT ![b].checks = n]
                /\ tasks' = [tasks EXCEPT ![t] =
                       [met EXCEPT !.pc = "done", !.client = 0, !.bucket = 0,
                                   !.err = "ResourceExhausted",
                                   !.result = "ResourceExhausted", !.doneAt = now]]
                /\ sessions' = [sessions EXCEPT ![tasks[t].client].is_connected = TRUE,
                                                ![tasks[t].client].last_active = now]
    /\ UNCHANGED <<now, ticks, store, ACTIVE_CONNECTIONS, sweep, calls, conn, resolved>>

\* client.rs 86 and rules.rs 106-107: bucket.check()
try_consume_token(t) ==
    /\ tasks[t].pc = "check"
    /\ LET b == tasks[t].bucket
           n == buckets[b].checks + 1
           met == [tasks[t] EXCEPT !.ordinal = n, !.since = now - buckets[b].born]
       IN  IF CheckOk(b)
           THEN /\ buckets' = [buckets EXCEPT ![b] = [CheckTake(b) EXCEPT !.checks = n]]
                /\ tasks' = [tasks EXCEPT ![t] = [met EXCEPT !.pc = "get_with"]]
           ELSE /\ buckets' = [buckets EXCEPT ![b].checks = n]
                /\ tasks' = [tasks EXCEPT ![t] =
                       [met EXCEPT !.pc = "done", !.client = 0, !.bucket = 0,
                                   !.err = "ResourceExhausted",
                                   !.result = "ResourceExhausted", !.doneAt = now]]
    /\ UNCHANGED <<now, ticks, store, sessions, ACTIVE_CONNECTIONS, sweep, calls, conn, resolved>>

\* client.rs 115: self.store.get_with(uuid, async { Arc::new(ClientState::new()) })
update_get_with(t) ==
    /\ tasks[t].pc = "get_with"
    /\ LET u == tasks[t].uuid
       IN  IF Present(u)
           THEN /\ store' = [store EXCEPT ![u].accessed = now]
                /\ sessions' = sessions
                /\ tasks' = [tasks EXCEPT ![t].pc = "read_clock", ![t].state = store[u].sess]
           ELSE /\ sessions' = Append(sessions, NewClientState)
                /\ store' = [store EXCEPT ![u] = [sess |-> Len(sessions) + 1, accessed |-> now]]
                /\ tasks' = [tasks EXCEPT ![t].pc = "read_clock", ![t].state = Len(sessions) + 1]
    /\ UNCHANGED <<now, ticks, buckets, ACTIVE_CONNECTIONS, sweep, calls, conn, resolved>>

\* client.rs 39: the right-hand side Instant::now() is evaluated before the
\* lock is taken
update_last_active_read(t) ==
    /\ tasks[t].pc = "read_clock"
    /\ tasks' = [tasks EXCEPT ![t].pc = "write_clock", ![t].ts = now]
    /\ UNCHANGED <<now, ticks, store, sessions, buckets, ACTIVE_CONNECTIONS, sweep, calls, conn, resolved>>

\* an update_last_active that writes nothing
update_last_active_write_skip(t) ==
    /\ tasks[t].pc = "write_clock"
    /\ sessions' = sessions
    /\ Goto(t, "active_insert")
    /\ UNCHANGED <<now, ticks, store, buckets, ACTIVE_CONNECTIONS, sweep, calls, conn, resolved>>

\* client.rs 39: *self.last_active.lock().unwrap() = <the instant read>
update_last_active_write(t) ==
    /\ tasks[t].pc = "write_clock"
    /\ sessions' = [sessions EXCEPT ![tasks[t].state].last_active = tasks[t].ts]
    /\ Goto(t, "active_insert")
    /\ UNCHANGED <<now, ticks, store, buckets, ACTIVE_CONNECTIONS, sweep, calls, conn, resolved>>

\* client.rs 117 and 152: ACTIVE_CONNECTIONS.insert(uuid, Instant::now());
\* it ends init_client_state (rules.rs 115: Ok(req))
active_insert(t) ==
    /\ tasks[t].pc = "active_insert"
    /\ ACTIVE_CONNECTIONS' = [ACTIVE_CONNECTIONS EXCEPT ![tasks[t].uuid] = now]
    /\ IF tasks[t].branch = "init"
       THEN Finish(t, None, "Admitted")
       ELSE Goto(t, "bind")
    /\ UNCHANGED <<now, ticks, store, sessions, buckets, sweep, calls, conn, resolved>>

\* a critical section in which the last caller's address replaces the
\* bound one
bind_or_verify_rebind(t) ==
    /\ tasks[t].pc = "bind"
    /\ LET s == tasks[t].state
           met == [tasks[t] EXCEPT !.on = s, !.found = sessions[s].bound_ip]
       IN  /\ sessions' = [sessions EXCEPT ![s].bound_ip = tasks[t].ip]
           /\ tasks' = [tasks EXCEPT ![t] = [met EXCEPT !.pc = "mark"]]
    /\ UNCHANGED <<now, ticks, store, buckets, ACTIVE_CONNECTIONS, sweep, calls, conn, resolved>>

\* a critical section that gives the token back when it rejects the caller
bind_or_verify_refund(t) ==
    /\ tasks[t].pc = "bind"
    /\ LET s == tasks[t].state
           b == tasks[t].bucket
           bound == sessions[s].bound_ip
           met == [tasks[t] EXCEPT !.on = s, !.found = bound]
       IN  IF bound # None
           THEN /\ sessions' = sessions
                /\ IF bound # tasks[t].ip
                   THEN /\ tasks' = [tasks EXCEPT ![t] =
                               [met EXCEPT !.pc = "done", !.client = 0, !.bucket = 0,
                                           !.state = 0, !.ts = 0,
                                           !.err = "PermissionDenied",
                                           !.result = "Internal", !.doneAt = now]]
                        /\ buckets' = [buckets EXCEPT
                               ![b].tat = buckets[b].tat - buckets[b].replenish]
                   ELSE /\ tasks' = [tasks EXCEPT ![t] = [met EXCEPT !.pc = "mark"]]
                        /\ buckets' = buckets
           ELSE /\ sessions' = [sessions EXCEPT ![s].bound_ip = tasks[t].ip]
                /\ tasks' = [tasks EXCEPT ![t] = [met EXCEPT !.pc = "mark"]]
                /\ buckets' = buckets
    /\ UNCHANGED <<now, ticks, store, ACTIVE_CONNECTIONS, sweep, calls, conn, resolved>>

\* a critical section that waits until the bound address is the caller's
bind_or_verify_wait(t) ==
    /\ tasks[t].pc = "bind"
    /\ LET s == tasks[t].state
           bound == sessions[s].bound_ip
           met == [tasks[t] EXCEPT !.on = s, !.found = bound]
       IN  /\ bound \in {None, tasks[t].ip}
           /\ sessions' = [sessions EXCEPT ![s].bound_ip = tasks[t].ip]
           /\ tasks' = [tasks EXCEPT ![t] = [met EXCEPT !.pc = "mark"]]
    /\ UNCHANGED <<now, ticks, store, buckets, ACTIVE_CONNECTIONS, sweep, calls, conn, resolved>>

\* client.rs 118-126: the critical section on bound_ip; rules.rs 108-109
\* maps the error of update_client_state to internal
bind_or_verify(t) ==
    /\ tasks[t].pc = "bind"
    /\ LET s == tasks[t].state
           bound == sessions[s].bound_ip
           met == [tasks[t] EXCEPT !.on = s, !.found = bound]
       IN  IF bound # None
           THEN /\ sessions' = sessions
                /\ IF bound # tasks[t].ip
                   THEN tasks' = [tasks EXCEPT ![t] =
                            [met EXCEPT !.pc = "done", !.client = 0, !.bucket = 0,
                                        !.state = 0, !.ts = 0,
                                        !.err = "PermissionDenied",
                                        !.result = "Internal", !.doneAt = now]]
                   ELSE tasks' = [tasks EXCEPT ![t] = [met EXCEPT !.pc = "mark"]]
           ELSE /\ sessions' = [sessions EXCEPT ![s].bound_ip = tasks[t].ip]
                /\ tasks' = [tasks EXCEPT ![t] = [met EXCEPT !.pc = "mark"]]
    /\ UNCHANGED <<now, ticks, store, buckets, ACTIVE_CONNECTIONS, sweep, calls, conn, resolved>>

\* an update_client_state that leaves the flag as it found it
mark_connected_skip(t) ==
    /\ tasks[t].pc = "mark"
    /\ sessions' = sessions
    /\ Finish(t, None, "Admitted")
    /\ UNCHANGED <<now, ticks, store, buckets, ACTIVE_CONNECTIONS, sweep, calls, conn, resolved>>

\* client.rs 127-128 and rules.rs 115: state.mark_connected(); Ok(req)
mark_connected(t) ==
    /\ tasks[t].pc = "mark"
    /\ sessions' = [sessions EXCEPT ![tasks[t].state].is_connected = TRUE]
    /\ Finish(t, None, "Admitted")
    /\ UNCHANGED <<now, ticks, store, buckets, ACTIVE_CONNECTIONS, sweep, calls, conn, resolved>>

\* client.rs 132-145: the rule, the new bucket and the new ClientState,
\* not yet in the store
init_client_state(t) ==
    /\ tasks[t].pc = "init"
    /\ LET name == tasks[t].rule
       IN  IF ~HasRule(name)
           THEN /\ Finish(t, "Internal", "Internal")
                /\ UNCHANGED <<sessions, buckets>>
           ELSE /\ buckets' = Append(buckets, NewBucket(RuleRegistryGet(name)))
                /\ sessions' = Append(sessions,
                       ProvisionedState(tasks[t].ip, name, Len(buckets) + 1))
                /\ tasks' = [tasks EXCEPT ![t].pc = "init_insert",
                                          ![t].client = Len(sessions) + 1,
                                          ![t].bucket = Len(buckets) + 1]
    /\ UNCHANGED <<now, ticks, store, ACTIVE_CONNECTIONS, sweep, calls, conn, resolved>>

\* client.rs 146: self.store.insert(uuid, Arc::new(client_state))
init_insert(t) ==
    /\ tasks[t].pc = "init_insert"
    /\ store' = [store EXCEPT ![tasks[t].uuid] = [sess |-> tasks[t].client, accessed |-> now]]
    /\ Goto(t, "init_get")
    /\ UNCHANGED <<now, ticks, sessions, buckets, ACTIVE_CONNECTIONS, sweep, calls, conn, resolved>>

\* client.rs 149: if let Some(stored_client_state) = self.store.get(uuid)
init_get(t) ==
    /\ tasks[t].pc = "init_get"
    /\ LET u == tasks[t].uuid
       IN  IF Present(u)
           THEN /\ store' = [store EXCEPT ![u].accessed = now]
                /\ tasks' = [tasks EXCEPT ![t].pc = "init_mark", ![t].state = store[u].sess]
           ELSE /\ store' = store
                /\ Finish(t, None, "Admitted")
    /\ UNCHANGED <<now, ticks, sessions, buckets, ACTIVE_CONNECTIONS, sweep, calls, conn, resolved>>

\* client.rs 150: stored_client_state.mark_connected()
init_mark_connected(t) ==
    /\ tasks[t].pc = "init_mark"
    /\ sessions' = [sessions EXCEPT ![tasks[t].state].is_connected = TRUE]
    /\ Goto(t, "read_clock")
    /\ UNCHANGED <<now, ticks, store, buckets, ACTIVE_CONNECTIONS, sweep, calls, conn, resolved>>

\* rules.rs 102-116: one step of the future of the call of task t
call_step(t) ==
    \/ call_lookup(t)
    \/ get_bucket_for_service(t)
    \/ bucket_insert(t)
    \/ try_consume_token(t)
    \/ update_get_with(t)
    \/ update_last_active_read(t)
    \/ update_last_active_write(t)
    \/ active_insert(t)
    \/ bind_or_verify(t)
    \/ mark_connected(t)
    \/ init_client_state(t)
    \/ init_insert(t)
    \/ init_get(t)
    \/ init_mark_connected(t)

-----------------------------------------------------------------------------
(* client.rs 175-197: cleanup_expired_connections *)

\* expired is the vector of uuids the scan found; before and at record the
\* map and the clock at the scan
IdleSweep == [pc |-> "idle", expired |-> {}, before |-> [u \in Uuids |-> Absent], at |-> 0]

\* client.rs 176-187: the scan of ACTIVE_CONNECTIONS
cleanup_scan ==
    /\ sweep.pc = "idle"
    /\ \E u \in Uuids : ACTIVE_CONNECTIONS[u] # Absent
    /\ sweep' = [pc |-> "remove",
                 expired |-> {u \in Uuids : /\ ACTIVE_CONNECTIONS[u] # Absent
                                            /\ now - ACTIVE_CONNECTIONS[u] > ExpireAfter},
                 before |-> ACTIVE_CONNECTIONS, at |-> now]
    /\ UNCHANGED <<now, ticks, store, sessions, buckets, ACTIVE_CONNECTIONS, tasks, calls, conn, resolved>>

\* a sweep that also invalidates the store entry of each uuid it removes
cleanup_remove_invalidate ==
    /\ sweep.pc = "remove"
    /\ IF sweep.expired = {}
       THEN /\ sweep' = [sweep EXCEPT !.pc = "idle"]
            /\ UNCHANGED <<ACTIVE_CONNECTIONS, store>>
       ELSE \E u \in sweep.expired :
            /\ ACTIVE_CONNECTIONS' = [ACTIVE_CONNECTIONS EXCEPT ![u] = Absent]
            /\ store' = [store EXCEPT ![u] = NoEntry]
            /\ sweep' = [sweep EXCEPT !.expired = sweep.expired \ {u}]
    /\ UNCHANGED <<now, ticks, sessions, buckets, tasks, calls, conn, resolved>>

\* client.rs 190-196: ACTIVE_CONNECTIONS.remove(&uuid) for the uuids found
cleanup_remove ==
    /\ sweep.pc = "remove"
    /\ IF sweep.expired = {}
       THEN /\ sweep' = [sweep EXCEPT !.pc = "idle"]
            /\ ACTIVE_CONNECTIONS' = ACTIVE_CONNECTIONS
       ELSE \E u \in sweep.expired :
            /\ ACTIVE_CONNECTIONS' = [ACTIVE_CONNECTIONS EXCEPT ![u] = Absent]
            /\ sweep' = [sweep EXCEPT !.expired = sweep.expired \ {u}]
    /\ UNCHANGED <<now, ticks, store, sessions, buckets, tasks, calls, conn, resolved>>

-----------------------------------------------------------------------------
(* client.rs 160-167, 200-206, 210-217: release_conn, force_disconnect and *)
(* is_connection_valid.  Each starts with self.store.get(uuid), which is   *)
(* an access of the cache entry.                                           *)

\* op and uuid are the function running and its argument, state the
\* session store.get returned (0 for None), result what is_connection_valid
\* returned; seen is the number of interceptor calls started before
IdleConn ==
    [pc |-> "idle", op |-> None, uuid |-> NoUuid, state |-> 0, result |-> FALSE, seen |-> 0]

ConnFree == conn.pc \in {"idle", "done"}

\* an operation that goes on to its next step when the store has no entry
StoreGetForAlways(op, u, hit) ==
    /\ ConnFree
    /\ store' = [store EXCEPT ![u].accessed = IF Present(u) THEN now ELSE @]
    /\ conn' = [pc |-> IF op = "is_connection_valid" /\ ~Present(u) THEN "done" ELSE hit,
                op |-> op, uuid |-> u,
                state |-> IF Present(u) THEN store[u].sess ELSE 0,
                result |-> FALSE, seen |-> calls]
    /\ UNCHANGED <<now, ticks, sessions, buckets, ACTIVE_CONNECTIONS, tasks, sweep, calls,
                   resolved>>

\* client.rs 161, 201, 211: if let Some(state) = self.store.get(uuid)
StoreGetFor(op, u, hit) ==
    /\ ConnFree
    /\ IF Present(u)
       THEN /\ store' = [store EXCEPT ![u].accessed = now]
            /\ conn' = [pc |-> hit, op |-> op, uuid |-> u, state |-> store[u].sess,
                        result |-> FALSE, seen |-> calls]
       ELSE /\ store' = store
            /\ conn' = [pc |-> "done", op |-> op, uuid |-> u, state |-> 0,
                        result |-> FALSE, seen |-> calls]
    /\ UNCHANGED <<now, ticks, sessions, buckets, ACTIVE_CONNECTIONS, tasks, sweep, calls,
                   resolved>>

release_conn(u) == StoreGetFor("release_conn", u, "mark_disconnected")

force_disconnect(u) == StoreGetFor("force_disconnect", u, "mark_disconnected")

is_connection_valid(u) == StoreGetFor("is_connection_valid", u, "is_connected")

\* a disconnect that leaves the flag as it is
mark_disconnected_skip ==
    /\ conn.pc = "mark_disconnected"
    /\ conn' = [conn EXCEPT !.pc = "remove"]
    /\ UNCHANGED <<now, ticks, store, sessions, buckets, ACTIVE_CONNECTIONS, tasks, sweep,
                   calls, resolved>>

\* client.rs 54-56, 162, 212: state.mark_disconnected()
mark_disconnected ==
    /\ conn.pc = "mark_disconnected"
    /\ sessions' = [sessions EXCEPT ![conn.state].is_connected = FALSE]
    /\ conn' = [conn EXCEPT !.pc = "remove"]
    /\ UNCHANGED <<now, ticks, store, buckets, ACTIVE_CONNECTIONS, tasks, sweep, calls,
                   resolved>>

\* a disconnect that clears the whole map
active_remove_all ==
    /\ conn.pc = "remove"
    /\ ACTIVE_CONNECTIONS' = [u \in Uuids |-> Absent]
    /\ conn' = [conn EXCEPT !.pc = "done"]
    /\ UNCHANGED <<now, ticks, store, sessions, buckets, tasks, sweep, calls, resolved>>

\* client.rs 164, 213: ACTIVE_CONNECTIONS.remove(uuid)
active_remove ==
    /\ conn.pc = "remove"
    /\ ACTIVE_CONNECTIONS' = [ACTIVE_CONNECTIONS EXCEPT ![conn.uuid] = Absent]
    /\ conn' = [conn EXCEPT !.pc = "done"]
    /\ UNCHANGED <<now, ticks, store, sessions, buckets, tasks, sweep, calls, resolved>>

\* a validity query that looks at the entry only
is_connected_any ==
    /\ conn.pc = "is_connected"
    /\ conn' = [conn EXCEPT !.pc = "done", !.result = TRUE]
    /\ UNCHANGED <<now, ticks, store, sessions, buckets, ACTIVE_CONNECTIONS, tasks, sweep,
                   calls, resolved>>

\* client.rs 59-61, 202: state.is_connected()
is_connected ==
    /\ conn.pc = "is_connected"
    /\ conn' = [conn EXCEPT !.pc = "done", !.result = sessions[conn.state].is_connected]
    /\ UNCHANGED <<now, ticks, store, sessions, buckets, ACTIVE_CONNECTIONS, tasks, sweep,
                   calls, resolved>>

conn_step ==
    \/ mark_disconnected
    \/ active_remove
    \/ is_connected

-----------------------------------------------------------------------------
(* utils.rs 6-56 applied to a request *)

Unresolved(req) == [req |-> req, ip |-> None]

resolve ==
    /\ resolved.ip = None
    /\ resolved' = [resolved EXCEPT !.ip = extract_client_ip(resolved.req)]
    /\ UNCHANGED <<now, ticks, store, sessions, buckets, ACTIVE_CONNECTIONS, tasks, sweep,
                   calls, conn>>

\* every combination of a missing, an unparsable and a parsable value of
\* each source
XffValues ==
    { <<>>, <<"unknown">>, <<"10.0.0.1", "172.16.0.1">>, <<"unknown", "10.0.0.1">> }

RealIpValues == { None, "bad", "10.0.0.2", "2001:DB8::1" }

\* forwarded: proto=http ; for=_hidden ; for=10.0.0.2:4711 ;
\* for="[2001:db8::1]" ; for=unknown;for=10.0.0.1
ForwardedValues ==
    { <<>>,
      <<[isFor |-> FALSE, segs |-> <<"proto=http">>]>>,
      <<[isFor |-> TRUE, segs |-> <<"_hidden">>]>>,
      <<[isFor |-> TRUE, segs |-> <<"10.0.0.2", "4711">>]>>,
      <<[isFor |-> TRUE, segs |-> <<"2001", "db8", "", "1">>]>>,
      <<[isFor |-> TRUE, segs |-> <<"unknown">>], [isFor |-> TRUE, segs |-> <<"10.0.0.1">>]>> }

PeerValues == { None, "172.16.0.1" }

AddrRequests ==
    { Req(UuidU, x, r, f, p) :
        x \in XffValues, r \in RealIpValues, f \in ForwardedValues, p \in PeerValues }

-----------------------------------------------------------------------------
(* The clock *)

Tick ==
    /\ ticks < MaxTicks
    /\ \E d \in TimeSteps : now' = now + d
    /\ ticks' = ticks + 1
    /\ UNCHANGED <<store, sessions, buckets, ACTIVE_CONNECTIONS, tasks, sweep, calls, conn, resolved>>

\* the clock advancing while calls are in flight
ClockSteps == {60, 601}

Elapse ==
    /\ ticks < MaxTicks
    /\ \E d \in ClockSteps : now' = now + d
    /\ ticks' = ticks + 1
    /\ UNCHANGED <<store, sessions, buckets, ACTIVE_CONNECTIONS, tasks, sweep, calls,
                   conn, resolved>>

-----------------------------------------------------------------------------
(* Specifications *)

InitState ==
    /\ now = 0
    /\ ticks = 0
    /\ store = [u \in Uuids |-> NoEntry]
    /\ sessions = <<>>
    /\ buckets = <<>>
    /\ ACTIVE_CONNECTIONS = [u \in Uuids |-> Absent]
    /\ tasks = [t \in Tasks |-> IdleTask]
    /\ sweep = IdleSweep
    /\ calls = 0
    /\ conn = IdleConn

Init == InitState /\ resolved = Unresolved(Req(NoUuid, <<>>, None, <<>>, None))

\* the calls of one client on concurrent tasks, interleaved, within one
\* instant
Next ==
    \/ \E t \in Tasks, req \in SameClientRequests, rule \in KnownRuleNames :
           call_validate(t, req, rule, MaxCalls)
    \/ \E t \in Tasks : call_step(t)

Spec == Init /\ [][Next]_vars

Quiet == (\A t \in Tasks : Free(t)) /\ sweep.pc = "idle"

\* one call or one sweep at a time, the clock advancing between them; an
\* Instant has no origin, so the clock starts with the first call
NextSeq ==
    \/ \E req \in Requests, rule \in RuleNames :
           Quiet /\ call_validate(1, req, rule, MaxSeqCalls)
    \/ call_step(1)
    \/ (\A t \in Tasks : Free(t)) /\ cleanup_scan
    \/ cleanup_remove
    \/ Quiet /\ calls > 0 /\ Tick

SpecSeq == Init /\ [][NextSeq]_vars

\* one client calling in sequence, the clock advancing between the calls
NextBurst ==
    \/ \E req \in SameClientRequests, rule \in KnownRuleNames :
           Free(1) /\ call_validate(1, req, rule, MaxBurstCalls)
    \/ call_step(1)
    \/ Free(1) /\ Tick

SpecBurst == Init /\ [][NextBurst]_vars

\* one client's calls, disconnects and validity queries, one at a time; the
\* client is provisioned through the interceptor of "metadata" and then
\* calls "ankr"
QuietConn == Quiet /\ ConnFree

ConnRule == IF calls = 0 THEN "metadata" ELSE "ankr"

ConnUuids == {UuidU}

NextConn ==
    \/ \E req \in SameClientRequests :
           QuietConn /\ call_validate(1, req, ConnRule, MaxBurstCalls)
    \/ call_step(1)
    \/ \E u \in ConnUuids : QuietConn /\ release_conn(u)
    \/ \E u \in ConnUuids : QuietConn /\ force_disconnect(u)
    \/ \E u \in ConnUuids : QuietConn /\ is_connection_valid(u)
    \/ conn_step
    \/ QuietConn /\ calls > 0 /\ Elapse

SpecConn == Init /\ [][NextConn]_vars

\* two concurrent calls of one client, task 1 from one address and task 2
\* from another, the clock advancing while both are inside
\* update_client_state
TaskRequest(t) ==
    Req(UuidU, <<>>, None, <<>>, IF t = 1 THEN "10.0.0.1" ELSE "10.0.0.2")

NextClock ==
    \/ \E t \in Tasks : call_validate(t, TaskRequest(t), "ankr", MaxCalls)
    \/ \E t \in Tasks : call_step(t)
    \/ (\A t \in Tasks : tasks[t].pc \in {"get_with", "read_clock", "write_clock"})
           /\ Elapse

SpecClock == Init /\ [][NextClock]_vars

\* two clients, each calling from its own address, one call at a time;
\* disconnects and validity queries for either client run beside the calls.
\* The identities are interchangeable, so the first call is taken to be V's.
IsoUuids == {UuidU, UuidV}

IsoRequest(u) ==
    Req(u, <<>>, None, <<>>, IF u = UuidU THEN "10.0.0.1" ELSE "10.0.0.2")

NextIso ==
    \/ \E u \in IsoUuids :
           (calls = 0 => u = UuidV) /\ call_validate(1, IsoRequest(u), ConnRule, MaxIsoCalls)
    \/ call_step(1)
    \/ \E u \in IsoUuids : calls > 0 /\ release_conn(u)
    \/ \E u \in IsoUuids : calls > 0 /\ force_disconnect(u)
    \/ \E u \in IsoUuids : calls > 0 /\ is_connection_valid(u)
    \/ conn_step

SpecIso == Init /\ [][NextIso]_vars

\* concurrent calls of one client from two addresses, interleaved with
\* disconnects, validity queries and sweeps.  The runtime polls every
\* spawned future that can make progress, and no step of an operation
\* waits for another operation: the sections under a Mutex (client.rs 39,
\* 118-126) hold no .await and are single steps here.  A run has one
\* disconnect or validity query and one sweep; the first call of each task
\* runs beside the other's, later calls start when nothing else runs.
NextLive ==
    \/ \E t \in Tasks :
           /\ calls >= Cardinality(Tasks) => QuietConn
           /\ call_validate(t, TaskRequest(t), ConnRule, MaxLiveCalls)
    \/ \E t \in Tasks : call_step(t)
    \/ \E u \in ConnUuids : calls > 0 /\ conn = IdleConn /\ release_conn(u)
    \/ \E u \in ConnUuids : calls > 0 /\ conn = IdleConn /\ force_disconnect(u)
    \/ \E u \in ConnUuids : calls > 0 /\ conn = IdleConn /\ is_connection_valid(u)
    \/ conn_step
    \/ sweep = IdleSweep /\ cleanup_scan
    \/ cleanup_remove
    \/ QuietConn /\ calls > 0 /\ Elapse

SpecLive ==
    /\ Init /\ [][NextLive]_vars
    /\ \A t \in Tasks : WF_vars(call_step(t))
    /\ WF_vars(conn_step)
    /\ WF_vars(cleanup_remove)

\* concurrent calls of one client from one address on "ankr", all within
\* one instant; the last call the bound allows is on "metadata"
RaceRequest == Req(UuidU, <<>>, None, <<>>, "10.0.0.1")

RaceRule == IF calls < MaxBurstCalls THEN "ankr" ELSE "metadata"

NextRace ==
    \/ \E t \in Tasks : call_validate(t, RaceRequest, RaceRule, MaxBurstCalls + 1)
    \/ \E t \in Tasks : call_step(t)

SpecRace == Init /\ [][NextRace]_vars

\* requests that carry no usable address, with no peer address (utils.rs
\* 48-52: remote_addr() is None), from two clients, and one request of the
\* first client that has a peer address; one call at a time
AnonRequests ==
    { Req(UuidU, <<>>, None, <<>>, None),
      Req(UuidU, <<"unknown">>, "bad", <<[isFor |-> TRUE, segs |-> <<"_hidden">>]>>, None),
      Req(UuidV, <<>>, None, <<>>, None) }

NextAnon ==
    \/ \E req \in AnonRequests \cup {Req(UuidU, <<>>, None, <<>>, "10.0.0.1")} :
           call_validate(1, req, ConnRule, MaxCalls)
    \/ call_step(1)

SpecAnon == Init /\ [][NextAnon]_vars

\* the address extraction applied to one request
InitIp == InitState /\ \E req \in AddrRequests : resolved = Unresolved(req)

NextIp == resolve

SpecIp == InitIp /\ [][NextIp]_vars

-----------------------------------------------------------------------------
(* What the claims speak of *)

\* the address bound to the session the store holds for u
BoundOf(u) == sessions[store[u].sess].bound_ip

\* the bucket the session the store holds for u has for a service, 0 if none
BucketOf(u, name) == sessions[store[u].sess].buckets[name]

\* task t ends its call in this step
Ends(t) == tasks[t].pc # "done" /\ tasks'[t].pc = "done"

-----------------------------------------------------------------------------
(* C1: sticky binding.  While the store holds an entry for an identity    *)
(* whose session is bound to an address, no step changes the address      *)
(* bound to the identity, and a call that ends admitted comes from the     *)
(* address bound to its identity.                                          *)
C1_StickyBinding ==
    [][ /\ \A u \in Uuids :
             (Present(u) /\ BoundOf(u) # None /\ Present(u)') => BoundOf(u)' = BoundOf(u)
        /\ \A t \in Tasks :
             (Ends(t) /\ tasks'[t].result = "Admitted" /\ Present(tasks[t].uuid))
                 => tasks[t].ip = BoundOf(tasks[t].uuid) ]_vars

(* C3: exactly-once construction.  While the store holds an entry for an  *)
(* identity, no step replaces the session of that entry, so concurrent     *)
(* first-contact calls all end up with the one session stored first.       *)
C3_ExactlyOneSession ==
    [][ \A u \in Uuids :
          (Present(u) /\ Present(u)') => store'[u].sess = store[u].sess ]_vars

(* C4: race-free bucket construction.  Every call that holds a bucket of  *)
(* its session for its service holds the bucket stored in the session      *)
(* under that service, so the token it takes is taken from the stored      *)
(* bucket.                                                                 *)
C4_OneBucketPerService ==
    \A t \in Tasks :
        tasks[t].pc \in {"check", "get_with"}
            => sessions[tasks[t].client].buckets[tasks[t].rule] = tasks[t].bucket

(* C2: a call for an identity whose session is bound to another address,  *)
(* made before the entry expired and with a token available, is rejected   *)
(* with PermissionDenied.                                                  *)
C2_MismatchIsPermissionDenied ==
    \A t \in Tasks :
        (/\ tasks[t].pc = "done"
         /\ tasks[t].branch = "update"
         /\ tasks[t].prior # 0 /\ tasks[t].age <= 600
         /\ tasks[t].err = "PermissionDenied")
            => tasks[t].result = "PermissionDenied"

(* C5: burst then deny.  Of the calls of one client made in sequence in   *)
(* the instant the bucket of the service was built, the provisioning call  *)
(* is admitted, each of the first b calls that take a token is admitted    *)
(* (b the burst of the service, 3 for "ankr") and every later one is       *)
(* rejected with ResourceExhausted.                                        *)
C5_BurstThenDeny ==
    \A t \in Tasks :
        tasks[t].pc = "done" =>
            /\ tasks[t].branch = "init" => tasks[t].result = "Admitted"
            /\ (/\ tasks[t].branch = "update"
                /\ tasks[t].ordinal >= 1
                /\ tasks[t].since = 0) =>
                   LET b == IF tasks[t].rule = "ankr" THEN 3
                            ELSE RULE_REGISTRY[tasks[t].rule].burst
                   IN  /\ (tasks[t].ordinal <= b /\ tasks[t].err # "PermissionDenied")
                              => tasks[t].result = "Admitted"
                       /\ tasks[t].ordinal > b => tasks[t].result = "ResourceExhausted"

\* the call after the provisioning call and three admitted calls to "ankr"
C5_Witness ==
    \E t \in Tasks :
        /\ tasks[t].pc = "done" /\ tasks[t].rule = "ankr" /\ tasks[t].branch = "update"
        /\ tasks[t].ordinal = 4 /\ tasks[t].since = 0
        /\ tasks[t].result = "ResourceExhausted"
        /\ buckets[BucketOf(tasks[t].uuid, "ankr")].checks = 4

(* C6: first-contact bypass.  A call for an identity the store has no     *)
(* entry for, on a known service, ends admitted, and when it ends the      *)
(* store holds a session for the identity that is bound to the caller's    *)
(* address, connected, and whose bucket for the service is full.           *)
C6_FirstContactBypass ==
    \A t \in Tasks :
        (tasks[t].pc = "done" /\ tasks[t].branch = "init" /\ tasks[t].rule \in Services) =>
            /\ tasks[t].result = "Admitted"
            /\ tasks[t].ordinal = 0
            /\ now = tasks[t].doneAt =>
                  /\ Present(tasks[t].uuid)
                  /\ BoundOf(tasks[t].uuid) = tasks[t].ip
                  /\ sessions[store[tasks[t].uuid].sess].is_connected
                  /\ BucketOf(tasks[t].uuid, tasks[t].rule) # 0
                  /\ Tokens(BucketOf(tasks[t].uuid, tasks[t].rule))
                         = RULE_REGISTRY[tasks[t].rule].burst
                  /\ buckets[BucketOf(tasks[t].uuid, tasks[t].rule)].checks = 0

\* the first call of a never-seen identity has just ended
C6_Witness ==
    \E t \in Tasks :
        /\ tasks[t].pc = "done" /\ tasks[t].branch = "init" /\ tasks[t].prior = 0
        /\ tasks[t].result = "Admitted" /\ now = tasks[t].doneAt
        /\ Present(tasks[t].uuid)

(* C7: a call whose uuid metadata is missing or not 128 characters long,  *)
(* or whose address is shorter than 7 or longer than 45 characters, ends   *)
(* in the step that starts it, with InvalidArgument, and that step leaves  *)
(* the store, the sessions, the buckets and the liveness index as they     *)
(* were.                                                                   *)
C7_MalformedRejected ==
    [][ \A t \in Tasks :
          (/\ calls' = calls + 1
           /\ tasks'[t] # tasks[t]
           /\ \/ tasks'[t].uuid = NoUuid
              \/ tasks'[t].uuid.len # 128
              \/ Len(tasks'[t].ip) < 7
              \/ Len(tasks'[t].ip) > 45)
             => /\ tasks'[t].pc = "done"
                /\ tasks'[t].result = "InvalidArgument"
                /\ UNCHANGED <<store, sessions, buckets, ACTIVE_CONNECTIONS>> ]_vars

\* a malformed call was rejected while the store holds a session
C7_Witness ==
    \E t \in Tasks :
        /\ tasks[t].pc = "done" /\ tasks[t].result = "InvalidArgument"
        /\ tasks[t].uuid.len # 128
        /\ \E u \in Uuids : Present(u) /\ ACTIVE_CONNECTIONS[u] # Absent

(* C8: idle expiry resets the binding.  A call for an identity whose      *)
(* entry had not been accessed for more than 600 seconds, on a known       *)
(* service, ends admitted whatever address it comes from, and when it ends *)
(* the store holds another session for the identity, bound to the caller's *)
(* address, whose only bucket is a full bucket for the service.            *)
C8_IdleExpiryResetsBinding ==
    \A t \in Tasks :
        (/\ tasks[t].pc = "done"
         /\ tasks[t].prior # 0 /\ tasks[t].age > 600
         /\ tasks[t].rule \in Services) =>
            /\ tasks[t].result = "Admitted"
            /\ now = tasks[t].doneAt =>
                  /\ Present(tasks[t].uuid)
                  /\ store[tasks[t].uuid].sess # tasks[t].prior
                  /\ BoundOf(tasks[t].uuid) = tasks[t].ip
                  /\ \A s \in Services :
                        IF s = tasks[t].rule
                        THEN /\ BucketOf(tasks[t].uuid, s) # 0
                             /\ Tokens(BucketOf(tasks[t].uuid, s)) = RULE_REGISTRY[s].burst
                        ELSE BucketOf(tasks[t].uuid, s) = 0

\* a call from another address than the expired session was bound to
C8_Witness ==
    \E t \in Tasks :
        /\ tasks[t].pc = "done" /\ tasks[t].prior # 0 /\ tasks[t].age > 600
        /\ sessions[tasks[t].prior].bound_ip # tasks[t].ip
        /\ tasks[t].result = "Admitted" /\ now = tasks[t].doneAt
        /\ BoundOf(tasks[t].uuid) = tasks[t].ip

(* C9: liveness/session independence.  No step of a sweep changes the     *)
(* store, a session or a bucket, and when the sweep ends the liveness      *)
(* index lacks exactly the identities whose instant was more than 60       *)
(* seconds old at the scan: every other entry is as it was.                *)
C9_SweepLeavesSessions ==
    [][ sweep' # sweep =>
          /\ UNCHANGED <<store, sessions, buckets>>
          /\ sweep'.pc = "idle" =>
                \A u \in Uuids :
                    ACTIVE_CONNECTIONS'[u] =
                        IF sweep.before[u] # Absent /\ sweep.at - sweep.before[u] > 60
                        THEN Absent
                        ELSE sweep.before[u] ]_vars

\* a sweep has removed one identity and kept another; the removed one still
\* has its session
C9_Witness ==
    /\ sweep.pc = "idle"
    /\ \E u, v \in Uuids :
          /\ sweep.before[u] # Absent /\ ACTIVE_CONNECTIONS[u] = Absent
          /\ sweep.before[v] # Absent /\ ACTIVE_CONNECTIONS[v] = sweep.before[v]
          /\ store[u].sess # 0 /\ BoundOf(u) # None

(* C10: every call ends admitted or rejected with one of the four kinds,  *)
(* each kind for its cause only: InvalidArgument for a malformed identity  *)
(* or address, PermissionDenied for an address-binding violation,          *)
(* ResourceExhausted for a quota denial, Internal for a configuration or   *)
(* storage failure.                                                        *)
C10_KindsMatchCauses ==
    \A t \in Tasks :
        tasks[t].pc = "done" =>
            /\ tasks[t].result \in {"Admitted", "InvalidArgument", "PermissionDenied",
                                    "ResourceExhausted", "Internal"}
            /\ tasks[t].result = "Admitted" <=> tasks[t].err = None
            /\ tasks[t].result = "InvalidArgument" <=> tasks[t].err = "InvalidArgument"
            /\ tasks[t].result = "PermissionDenied" <=> tasks[t].err = "PermissionDenied"
            /\ tasks[t].result = "ResourceExhausted" <=> tasks[t].err = "ResourceExhausted"
            /\ tasks[t].result = "Internal" <=> tasks[t].err = "Internal"

(* C11: a call on a service name the registry has no rule for, once it   *)
(* has passed the checks of its metadata, ends rejected with Internal,     *)
(* whether the store held a session for its identity or not.               *)
C11_MissingRuleIsInternal ==
    \A t \in Tasks :
        (tasks[t].pc = "done" /\ tasks[t].branch # None /\ tasks[t].rule \notin Services)
            => tasks[t].result = "Internal"

(* C12: unknown service.  The step of get_bucket_for_service for a name   *)
(* the registry has no rule for returns the rule-not-found status, builds  *)
(* no bucket and leaves every session's bucket map and every bucket as     *)
(* they were.                                                              *)
C12_UnknownServiceNoBucket ==
    [][ \A t \in Tasks :
          (/\ tasks[t].pc = "get_bucket"
           /\ tasks[t].rule \notin Services
           /\ tasks'[t] # tasks[t])
             => /\ tasks'[t].pc = "done"
                /\ tasks'[t].err = "Internal"
                /\ Len(buckets') = Len(buckets)
                /\ UNCHANGED <<sessions, buckets>> ]_vars

\* a call on an unknown service met a session that has a bucket
C12_Witness ==
    \E t \in Tasks :
        /\ tasks[t].pc = "done" /\ tasks[t].branch = "update"
        /\ tasks[t].rule \notin Services /\ tasks[t].err = "Internal"
        /\ Present(tasks[t].uuid)
        /\ \E s \in Services : BucketOf(tasks[t].uuid, s) # 0

\* conn is the run of a disconnect that found a session
Disconnects(c) == c.op \in {"release_conn", "force_disconnect"} /\ c.state # 0

(* C13: disconnect.  No step of release_conn or force_disconnect on an    *)
(* identity the store holds an entry for changes which session the store   *)
(* holds, a bound address, a bucket map or a bucket; when it ends the      *)
(* session's flag is disconnected, the identity is not in the liveness     *)
(* index and the store still holds the session.  The call made next, if it *)
(* meets that session, is not admitted from another address than the bound *)
(* one, and is rejected with ResourceExhausted when the tokens of the      *)
(* bucket were all taken and none has been refilled.                       *)
C13_DisconnectKeepsSession ==
    [][ /\ (conn' # conn /\ Disconnects(conn')) =>
              /\ \A u \in Uuids : store'[u].sess = store[u].sess
              /\ Len(sessions') = Len(sessions)
              /\ \A s \in 1..Len(sessions) :
                    /\ sessions'[s].bound_ip = sessions[s].bound_ip
                    /\ sessions'[s].buckets = sessions[s].buckets
              /\ buckets' = buckets
              /\ conn'.pc = "done" =>
                    /\ store'[conn'.uuid].sess = conn'.state
                    /\ now' - store'[conn'.uuid].accessed <= 600
                    /\ ~sessions'[conn'.state].is_connected
                    /\ ACTIVE_CONNECTIONS'[conn'.uuid] = Absent
        /\ \A t \in Tasks :
              (/\ conn'.pc = "done" /\ Disconnects(conn')
               /\ calls' = conn'.seen + 1
               /\ tasks'[t].pc = "done" /\ tasks'[t].branch = "update"
               /\ tasks'[t].prior = conn'.state /\ tasks'[t].age <= 600) =>
                  /\ tasks'[t].ip # sessions'[conn'.state].bound_ip
                        => tasks'[t].result # "Admitted"
                  /\ (/\ tasks'[t].ordinal > RULE_REGISTRY[tasks'[t].rule].burst
                      /\ tasks'[t].since < RULE_REGISTRY[tasks'[t].rule].replenish)
                        => tasks'[t].result = "ResourceExhausted" ]_vars

\* after a disconnect of a client whose bucket was exhausted, the next call
\* from the bound address met the same session and was denied for quota
C13_Witness ==
    /\ conn.pc = "done" /\ Disconnects(conn) /\ calls = conn.seen + 1
    /\ \E t \in Tasks :
          /\ tasks[t].pc = "done" /\ tasks[t].prior = conn.state
          /\ tasks[t].ip = sessions[conn.state].bound_ip
          /\ tasks[t].ordinal = 4 /\ tasks[t].result = "ResourceExhausted"
    /\ ~sessions[conn.state].is_connected
    /\ ACTIVE_CONNECTIONS[conn.uuid] = Absent

(* C14: is_connection_valid returns true if and only if the store holds   *)
(* an entry for the identity and the flag of that entry's session is       *)
(* connected.                                                              *)
C14_ValidIffEntryConnected ==
    [][ (conn' # conn /\ conn'.op = "is_connection_valid" /\ conn'.pc = "done") =>
          conn'.result = (/\ Present(conn'.uuid)
                          /\ sessions[store[conn'.uuid].sess].is_connected) ]_vars

\* the query answered false for an identity whose entry is in the store,
\* after a disconnect
C14_Witness ==
    /\ conn.pc = "done" /\ conn.op = "is_connection_valid" /\ conn.state # 0
    /\ conn.result = FALSE
    /\ Present(conn.uuid) /\ store[conn.uuid].sess = conn.state
    /\ ~sessions[conn.state].is_connected

(* C15: every call that met a session in the store has, when it ends,    *)
(* set that session's last_active to the instant of the call, whether it   *)
(* ends admitted or rejected.                                              *)
C15_EveryCallTouches ==
    \A t \in Tasks :
        (/\ tasks[t].pc = "done" /\ tasks[t].branch = "update"
         /\ tasks[t].prior # 0 /\ tasks[t].age <= 600)
            => sessions[tasks[t].prior].last_active = tasks[t].doneAt

(* C16: last_active of the session the store holds for an identity never *)
(* decreases, however the concurrent callers of update_last_active         *)
(* interleave.                                                             *)
C16_LastActiveMonotonic ==
    [][ \A u \in Uuids :
          (/\ Present(u)
           /\ store'[u].sess = store[u].sess
           /\ now' - store'[u].accessed <= 600)
             => sessions'[store[u].sess].last_active
                    >= sessions[store[u].sess].last_active ]_vars

(* C17: while the store holds an entry for an identity, the bucket of the *)
(* identity for a service, once built, stays the same bucket: no step      *)
(* replaces it by another one, through the session or through the bucket   *)
(* map.                                                                    *)
C17_BucketNeverReplaced ==
    [][ \A u \in Uuids, s \in Services :
          (/\ Present(u)
           /\ BucketOf(u, s) # 0
           /\ store'[u].sess # 0 /\ now' - store'[u].accessed <= 600)
             => sessions'[store'[u].sess].buckets[s] = BucketOf(u, s) ]_vars

(* C19: the critical section of update_client_state on a session: with no *)
(* bound address it binds the caller's and succeeds; with an equal one it  *)
(* succeeds and changes nothing; with a different one it fails and changes *)
(* nothing.  A bound address is never overwritten, and of two callers with *)
(* different addresses on one session exactly one fails.                   *)
C19_BindOrVerify ==
    [][ /\ \A t \in Tasks :
              (tasks[t].pc = "bind" /\ tasks'[t] # tasks[t]) =>
                 LET s == tasks[t].state
                     bound == sessions[s].bound_ip
                 IN  /\ bound = None =>
                            /\ sessions'[s].bound_ip = tasks[t].ip
                            /\ tasks'[t].pc = "mark"
                     /\ bound = tasks[t].ip =>
                            /\ sessions' = sessions
                            /\ tasks'[t].pc = "mark"
                     /\ (bound # None /\ bound # tasks[t].ip) =>
                            /\ sessions' = sessions
                            /\ tasks'[t].pc = "done"
                            /\ tasks'[t].err = "PermissionDenied"
        /\ \A s \in 1..Len(sessions) :
              sessions[s].bound_ip # None => sessions'[s].bound_ip = sessions[s].bound_ip
        /\ \A t1, t2 \in Tasks :
              (/\ tasks'[t1].on # 0 /\ tasks'[t1].on = tasks'[t2].on
               /\ tasks'[t1].ip # tasks'[t2].ip)
                 => (tasks'[t1].err = "PermissionDenied") # (tasks'[t2].err = "PermissionDenied")
      ]_vars

\* two concurrent callers with different addresses met one unbound session:
\* one bound it, the other failed against the address just bound
C19_Witness ==
    \E t1, t2 \in Tasks :
        /\ tasks[t1].on # 0 /\ tasks[t1].on = tasks[t2].on
        /\ tasks[t1].found = None /\ tasks[t1].err = None
        /\ sessions[tasks[t1].on].bound_ip = tasks[t1].ip
        /\ tasks[t2].found = tasks[t1].ip /\ tasks[t2].ip # tasks[t1].ip
        /\ tasks[t2].pc = "done" /\ tasks[t2].err = "PermissionDenied"

\* the text the ':'-separated segments were split from
RECURSIVE JoinColon(_)
JoinColon(segs) ==
    IF Len(segs) = 1 THEN Head(segs)
    ELSE Head(segs) \o ":" \o JoinColon(Tail(segs))

\* the address a for= element carries: the element without quotes and
\* brackets, or what precedes its port
ForElementAddr(pair) ==
    IF ~pair.isFor THEN None
    ELSE IF ParseIp(JoinColon(pair.segs)) # None THEN ParseIp(JoinColon(pair.segs))
    ELSE IF Len(pair.segs) = 2 THEN ParseIp(pair.segs[1])
    ELSE None

RECURSIVE FirstForAddr(_)
FirstForAddr(pairs) ==
    IF pairs = <<>> THEN None
    ELSE IF ForElementAddr(Head(pairs)) # None THEN ForElementAddr(Head(pairs))
    ELSE FirstForAddr(Tail(pairs))

\* utils.rs 5: X-Forwarded-For > X-Real-IP > Forwarded > peer
PriorityAddr(req) ==
    IF req.xff # <<>> /\ ParseIp(Head(req.xff)) # None THEN ParseIp(Head(req.xff))
    ELSE IF req.real_ip # None /\ ParseIp(req.real_ip) # None THEN ParseIp(req.real_ip)
    ELSE IF FirstForAddr(req.forwarded) # None THEN FirstForAddr(req.forwarded)
    ELSE IF req.peer # None THEN req.peer
    ELSE "0.0.0.0"

(* C18: the address extracted from a request is the first of these that  *)
(* is present and parses as an IP address: the first item of               *)
(* x-forwarded-for, x-real-ip, the for= element of forwarded, the          *)
(* transport peer address; a source is used only when every source before  *)
(* it is missing or does not parse.                                        *)
C18_AddressPriority ==
    resolved.ip # None => resolved.ip = PriorityAddr(resolved.req)

(* C20: try_consume_token on a bucket that holds at least one token takes *)
(* exactly one and succeeds; on a bucket that holds none it returns the    *)
(* quota error in the same step and leaves the bucket as it was; the       *)
(* tokens of every bucket are at least 0 and at most the burst of its      *)
(* service.                                                                *)
C20_ConsumeOneOrDeny ==
    [][ /\ \A t \in Tasks, b \in 1..Len(buckets) :
              (tasks[t].pc = "check" /\ tasks'[t] # tasks[t] /\ b = tasks[t].bucket) =>
                 /\ Tokens(b) >= 1 =>
                        /\ Tokens(b)' = Tokens(b) - 1
                        /\ tasks'[t].pc # "done" /\ tasks'[t].err = None
                 /\ Tokens(b) = 0 =>
                        /\ Tokens(b)' = 0
                        /\ buckets'[b].tat = buckets[b].tat
                        /\ tasks'[t].pc = "done"
                        /\ tasks'[t].err = "ResourceExhausted"
        /\ \A b \in 1..Len(buckets') :
              /\ Tokens(b)' >= 0
              /\ Tokens(b)' <= buckets'[b].burst
              /\ \E name \in Services : buckets'[b].burst = RULE_REGISTRY[name].burst
      ]_vars

\* a call was denied on a bucket emptied a minute before, too early for
\* a refill
C20_Witness ==
    \E t \in Tasks :
        /\ tasks[t].pc = "done" /\ tasks[t].branch = "update"
        /\ tasks[t].ordinal = 4 /\ tasks[t].since >= 60
        /\ tasks[t].err = "ResourceExhausted"
        /\ Tokens(BucketOf(tasks[t].uuid, tasks[t].rule)) = 0

\* the cells a bucket record hands out at an instant
TokensOf(bk, at) ==
    (at + bk.replenish * bk.burst - Max(bk.tat, at)) \div bk.replenish

(* C21: init_client_state is idempotent.  When the store already holds   *)
(* an entry for the identity, bound to the caller's address and with a     *)
(* bucket for the service, the insertion of init_client_state leaves the   *)
(* stored session, its bound address and the tokens of its bucket for the  *)
(* service as they were.                                                   *)
C21_InitIdempotent ==
    [][ \A t \in Tasks :
          LET u == tasks[t].uuid
          IN  (/\ tasks[t].pc = "init_insert" /\ tasks'[t].pc = "init_get"
               /\ Present(u)
               /\ BoundOf(u) = tasks[t].ip
               /\ BucketOf(u, tasks[t].rule) # 0)
                 => /\ store'[u].sess = store[u].sess
                    /\ sessions'[store'[u].sess].bound_ip = BoundOf(u)
                    /\ sessions'[store'[u].sess].buckets[tasks[t].rule]
                           = BucketOf(u, tasks[t].rule)
                    /\ TokensOf(buckets'[sessions'[store'[u].sess].buckets[tasks[t].rule]],
                                now')
                           = Tokens(BucketOf(u, tasks[t].rule)) ]_vars

\* what the program holds for an identity: its store entry, the session
\* of that entry, the tokens of the session's buckets and its entry in
\* ACTIVE_CONNECTIONS
ViewOf(u) ==
    [entry |-> store[u].sess,
     session |-> IF store[u].sess = 0 THEN 0
                 ELSE [bound_ip |-> BoundOf(u),
                       is_connected |-> sessions[store[u].sess].is_connected],
     tokens |-> IF store[u].sess = 0 THEN 0
                ELSE [s \in Services |->
                         IF BucketOf(u, s) = 0 THEN Absent ELSE Tokens(BucketOf(u, s))],
     last_seen |-> ACTIVE_CONNECTIONS[u]]

(* C22: client isolation.  A step of an interceptor call, a disconnect or *)
(* a validity query for one identity leaves what the program holds for     *)
(* every other identity as it was: store entry, bound address, connection  *)
(* flag, tokens and ACTIVE_CONNECTIONS entry.  A call is rejected for      *)
(* quota only when the bucket of its own identity is empty.                *)
C22_ClientIsolation ==
    [][ /\ \A u, v \in Uuids :
              (/\ u # v
               /\ \/ \E t \in Tasks : tasks'[t] # tasks[t] /\ tasks'[t].uuid = u
                  \/ conn' # conn /\ conn'.uuid = u)
                 => ViewOf(v)' = ViewOf(v)
        /\ \A t \in Tasks :
              (tasks[t].pc = "check" /\ tasks'[t].err = "ResourceExhausted")
                 => /\ tasks[t].bucket = BucketOf(tasks[t].uuid, tasks[t].rule)
                    /\ Tokens(tasks[t].bucket) = 0 ]_vars

\* one client emptied its bucket and was then disconnected; the other,
\* provisioned before, was admitted afterwards and is still connected
C22_Witness ==
    /\ Present(UuidU) /\ Present(UuidV)
    /\ BucketOf(UuidU, "ankr") # 0 /\ Tokens(BucketOf(UuidU, "ankr")) = 0
    /\ conn.pc = "done" /\ conn.op = "force_disconnect" /\ conn.uuid = UuidU
    /\ conn.state = store[UuidU].sess
    /\ ACTIVE_CONNECTIONS[UuidU] = Absent /\ ACTIVE_CONNECTIONS[UuidV] # Absent
    /\ tasks[1].pc = "done" /\ tasks[1].uuid = UuidV /\ tasks[1].branch = "update"
    /\ tasks[1].result = "Admitted"
    /\ sessions[store[UuidV].sess].is_connected
    /\ BoundOf(UuidV) = "10.0.0.2"

\* an operation is under way
InFlight(t) == ~Free(t)

(* C23: no interleaving of concurrent calls, disconnects, validity        *)
(* queries and sweeps blocks an operation: whenever one is under way its   *)
(* next step can be taken.  Under fair scheduling every call that started  *)
(* ends, admitted or rejected, and every disconnect, validity query and    *)
(* sweep ends.                                                             *)
C23_EveryCallEnds ==
    /\ [](/\ \A t \in Tasks : InFlight(t) => ENABLED call_step(t)
          /\ ~ConnFree => ENABLED conn_step
          /\ sweep.pc = "remove" => ENABLED cleanup_remove)
    /\ \A t \in Tasks :
          InFlight(t) ~>
              (/\ tasks[t].pc = "done"
               /\ tasks[t].result \in
                      {"Admitted", "InvalidArgument", "ResourceExhausted", "Internal"})
    /\ ~ConnFree ~> ConnFree
    /\ (sweep.pc = "remove") ~> (sweep.pc = "idle")

\* two calls ran in one instant beside a disconnect and a sweep: one call
\* ended admitted and the other rejected on the address
C23_Witness ==
    /\ tasks[1].pc = "done" /\ tasks[2].pc = "done"
    /\ tasks[1].doneAt = tasks[2].doneAt
    /\ \E t \in Tasks : tasks[t].result = "Admitted"
    /\ \E t \in Tasks : tasks[t].err = "PermissionDenied"
    /\ conn.pc = "done" /\ conn.op = "force_disconnect" /\ conn.state # 0
    /\ sweep.pc = "idle" /\ sweep.before[UuidU] # Absent

(* C24: no premature eviction.  An entry of the store that was accessed  *)
(* within the last 600 time units is still the entry of its identity      *)
(* after every step: the same session, with the address it was bound to   *)
(* and the buckets it held.  Only idle expiry ends an entry; a disconnect, *)
(* a sweep or a rejected call does not.                                    *)
C24_NoPrematureEviction ==
    [][ \A u \in Uuids :
          (Present(u) /\ now' - store[u].accessed <= TimeToIdle)
             => /\ store'[u].sess = store[u].sess
                /\ now' - store'[u].accessed <= TimeToIdle
                /\ BoundOf(u) # None => sessions'[store[u].sess].bound_ip = BoundOf(u)
                /\ \A s \in Services :
                      BucketOf(u, s) # 0
                          => sessions'[store[u].sess].buckets[s] = BucketOf(u, s) ]_vars

\* the entry of u in ACTIVE_CONNECTIONS is older than the threshold of
\* cleanup_expired_connections
Stale(u) == ACTIVE_CONNECTIONS[u] # Absent /\ now - ACTIVE_CONNECTIONS[u] > ExpireAfter

(* C26: the sweeper runs for the lifetime of the process: under fair      *)
(* scheduling a sweep starts again and again, and every identity whose     *)
(* entry in ACTIVE_CONNECTIONS is older than 60 time units is eventually   *)
(* removed from it (or seen again).                                        *)
C26_SweeperRemovesStale ==
    \A u \in Uuids : Stale(u) ~> ~Stale(u)

(* C27: token consumption is never rolled back.  No step gives a cell    *)
(* back to a bucket: the theoretical arrival time of a bucket never goes   *)
(* down, and while the clock stands still the tokens of a bucket do not    *)
(* rise, whether the call that took a token goes on to be admitted or is   *)
(* rejected on its address.                                                *)
C27_NoRollback ==
    [][ \A b \in 1..Len(buckets) :
          /\ buckets'[b].tat >= buckets[b].tat
          /\ now' = now => TokensOf(buckets'[b], now') <= Tokens(b)
          /\ \A t \in Tasks :
                (/\ tasks[t].bucket = b /\ tasks[t].pc \notin {"check", "bucket_insert"}
                 /\ tasks'[t].pc = "done")
                   => buckets'[b] = buckets[b] ]_vars

\* a call took a token and was then rejected on its address; the token
\* is gone
C27_Witness ==
    \E t \in Tasks :
        /\ tasks[t].pc = "done" /\ tasks[t].err = "PermissionDenied"
        /\ tasks[t].ordinal = 1 /\ now = tasks[t].doneAt /\ tasks[t].since = 0
        /\ Present(tasks[t].uuid)
        /\ buckets[BucketOf(tasks[t].uuid, tasks[t].rule)].checks = 1
        /\ Tokens(BucketOf(tasks[t].uuid, tasks[t].rule))
               = buckets[BucketOf(tasks[t].uuid, tasks[t].rule)].burst - 1

\* the checks of a bucket that found no token: within one instant nothing
\* is refilled, so the tokens missing from a bucket are the checks that
\* took one (client.rs 86)
Denied(b) == buckets[b].checks - (buckets[b].burst - Tokens(b))

RECURSIVE DeniedUpTo(_)
DeniedUpTo(n) == IF n = 0 THEN 0 ELSE Denied(n) + DeniedUpTo(n - 1)

\* the calls that ended admitted, when no call is under way: a call of
\* RaceRequest has a well-formed uuid and address, comes from the one
\* address and names a known service, so it is admitted unless its check
\* found no token (rules.rs 106-107)
AdmittedCalls == calls - DeniedUpTo(Len(buckets))

(* C28: bounded admission.  Of the calls of one identity on one service   *)
(* with burst b, made within one instant (no refill, no idle expiry) and   *)
(* interleaved in any way, at most b + 1 end admitted: the provisioning    *)
(* call and b calls that took a token.                                     *)
C28_BoundedAdmission ==
    ((\A t \in Tasks : Free(t)) /\ calls <= MaxBurstCalls)
        => AdmittedCalls <= RULE_REGISTRY.ankr.burst + 1

(* C29: the token is taken before the address is verified.  A call that  *)
(* met a session bound to another address, while the bucket of the         *)
(* service holds a token, takes one token and goes on; the critical        *)
(* section on bound_ip then rejects it and gives nothing back.  So every   *)
(* call rejected on its address has taken a token.                         *)
C29_ConsumeBeforeVerify ==
    [][ \A t \in Tasks, b \in 1..Len(buckets) :
          LET bound == sessions[tasks[t].client].bound_ip
          IN  /\ (/\ tasks[t].pc = "check" /\ tasks'[t] # tasks[t] /\ b = tasks[t].bucket
                  /\ bound \notin {None, tasks[t].ip}
                  /\ Tokens(b) >= 1)
                    => /\ Tokens(b)' = Tokens(b) - 1
                       /\ tasks'[t].pc = "get_with"
              /\ (/\ tasks[t].pc = "bind" /\ tasks'[t] # tasks[t] /\ b = tasks[t].bucket
                  /\ bound \notin {None, tasks[t].ip})
                    => /\ tasks'[t].pc = "done"
                       /\ tasks'[t].result # "Admitted"
                       /\ tasks'[t].ordinal >= 1
                       /\ buckets'[b].checks = tasks'[t].ordinal
                       /\ Tokens(b)' = Tokens(b)
                       /\ Tokens(b)' <= buckets[b].burst - 1 ]_vars

\* the last token of the bucket went to a call that was rejected on its
\* address
C29_Witness ==
    \E t \in Tasks :
        /\ tasks[t].pc = "done" /\ tasks[t].err = "PermissionDenied"
        /\ tasks[t].rule = "ankr" /\ tasks[t].ordinal = 3 /\ tasks[t].since = 0
        /\ tasks[t].found \notin {None, tasks[t].ip}
        /\ BoundOf(tasks[t].uuid) = tasks[t].found
        /\ Tokens(BucketOf(tasks[t].uuid, "ankr")) = 0

\* what update_client_state would write for u: the session's bound
\* address, connection flag and last_active, and the entry of u in
\* ACTIVE_CONNECTIONS
TouchedOf(u) ==
    [session |-> IF store[u].sess = 0 THEN 0
                 ELSE [bound_ip |-> BoundOf(u),
                       is_connected |-> sessions[store[u].sess].is_connected,
                       last_active |-> sessions[store[u].sess].last_active],
     last_seen |-> ACTIVE_CONNECTIONS[u]]

(* C30: a call that finds the bucket empty ends with ResourceExhausted    *)
(* whatever its address: the address is not looked at, and no step of the  *)
(* call up to and including the failed check changes the bound address,    *)
(* the connection flag, last_active or the ACTIVE_CONNECTIONS entry of its *)
(* identity.                                                               *)
C30_DenialTouchesNothing ==
    [][ \A t \in Tasks, u \in Uuids :
          /\ (/\ tasks'[t] # tasks[t] /\ tasks'[t].uuid = u
              /\ tasks'[t].branch # "init"
              /\ \/ tasks'[t].pc \in {"lookup", "get_bucket", "bucket_insert", "check"}
                 \/ tasks[t].pc = "check" /\ tasks'[t].pc = "done")
                => TouchedOf(u)' = TouchedOf(u)
          /\ (/\ tasks[t].pc = "check" /\ tasks'[t] # tasks[t]
              /\ Tokens(tasks[t].bucket) = 0)
                => /\ tasks'[t].pc = "done"
                   /\ tasks'[t].result = "ResourceExhausted"
                   /\ tasks'[t].on = 0 /\ tasks'[t].found = None ]_vars

\* a call from another address than the bound one was denied for quota a
\* minute after the client was disconnected: the session is still bound
\* to the first address, disconnected and last active a minute ago
C30_Witness ==
    \E t \in Tasks :
        /\ tasks[t].pc = "done" /\ tasks[t].branch = "update"
        /\ tasks[t].result = "ResourceExhausted" /\ tasks[t].doneAt = now
        /\ Present(tasks[t].uuid)
        /\ BoundOf(tasks[t].uuid) \notin {None, tasks[t].ip}
        /\ ~sessions[store[tasks[t].uuid].sess].is_connected
        /\ sessions[store[tasks[t].uuid].sess].last_active < now
        /\ ACTIVE_CONNECTIONS[tasks[t].uuid] = Absent

(* C31: a call rejected on its address has refreshed what it rejects.    *)
(* When the critical section on bound_ip rejects a caller, last_active of *)
(* the session and the entry of the identity in ACTIVE_CONNECTIONS are    *)
(* already the instant of the call; the rejection itself changes no       *)
(* session, and no step of update_client_state before it changes the      *)
(* bound address or the connection flag.                                   *)
C31_RejectedCallRefreshes ==
    [][ \A t \in Tasks :
          LET s == tasks[t].state
          IN  /\ (/\ tasks[t].pc = "bind" /\ tasks'[t] # tasks[t]
                  /\ sessions[s].bound_ip \notin {None, tasks[t].ip})
                    => /\ tasks'[t].pc = "done" /\ tasks'[t].err = "PermissionDenied"
                       /\ sessions' = sessions
                       /\ ACTIVE_CONNECTIONS' = ACTIVE_CONNECTIONS
                       /\ sessions[s].last_active = now
                       /\ ACTIVE_CONNECTIONS[tasks[t].uuid] = now
              /\ (/\ tasks[t].pc \in {"read_clock", "write_clock", "active_insert"}
                  /\ tasks[t].branch = "update" /\ tasks'[t] # tasks[t])
                    => /\ sessions'[s].bound_ip = sessions[s].bound_ip
                       /\ sessions'[s].is_connected = sessions[s].is_connected ]_vars

\* a call from another address was rejected a minute after the client was
\* disconnected: the session is still bound to the first address and
\* disconnected, but last active and seen at the instant of the call
C31_Witness ==
    \E t \in Tasks :
        /\ tasks[t].pc = "done" /\ tasks[t].err = "PermissionDenied"
        /\ tasks[t].doneAt = now /\ now > 0
        /\ Present(tasks[t].uuid) /\ store[tasks[t].uuid].sess = tasks[t].on
        /\ BoundOf(tasks[t].uuid) = tasks[t].found
        /\ tasks[t].found \notin {None, tasks[t].ip}
        /\ ~sessions[tasks[t].on].is_connected
        /\ sessions[tasks[t].on].last_active = now
        /\ ACTIVE_CONNECTIONS[tasks[t].uuid] = now

(* C32: disconnect is not sticky.  The call made next after a disconnect, *)
(* if it meets the disconnected session, comes from the bound address and  *)
(* finds a token, ends admitted; when it ends the session's flag is        *)
(* connected again and the identity is back in ACTIVE_CONNECTIONS, and a   *)
(* validity query on a session whose flag is connected answers true.       *)
C32_DisconnectNotSticky ==
    [][ /\ \A t \in Tasks :
              (/\ conn.pc = "done" /\ Disconnects(conn)
               /\ calls = conn.seen + 1
               /\ tasks[t].prior = conn.state /\ tasks[t].age <= TimeToIdle
               /\ tasks[t].branch = "update"
               /\ tasks[t].ip = sessions[conn.state].bound_ip)
                 => /\ (tasks[t].pc = "check" /\ tasks'[t] # tasks[t]
                           /\ Tokens(tasks[t].bucket) >= 1)
                          => tasks'[t].pc = "get_with"
                    /\ (tasks[t].pc = "get_with" /\ tasks'[t] # tasks[t])
                          => tasks'[t].state = conn.state
                    /\ (tasks[t].pc = "bind" /\ tasks'[t] # tasks[t])
                          => tasks'[t].pc = "mark"
                    /\ (tasks[t].pc = "mark" /\ tasks'[t] # tasks[t])
                          => /\ tasks'[t].pc = "done" /\ tasks'[t].result = "Admitted"
                             /\ ~sessions[conn.state].is_connected
                             /\ sessions'[conn.state].is_connected
                             /\ ACTIVE_CONNECTIONS'[tasks[t].uuid] = now
                             /\ store'[tasks[t].uuid].sess = conn.state
        /\ (conn.pc = "is_connected" /\ conn' # conn /\ sessions[conn.state].is_connected)
              => conn'.pc = "done" /\ conn'.result = TRUE ]_vars

\* the call after a disconnect was admitted and the client is connected
\* and seen again
C32_Witness ==
    /\ conn.pc = "done" /\ Disconnects(conn) /\ calls = conn.seen + 1
    /\ \E t \in Tasks :
          /\ tasks[t].pc = "done" /\ tasks[t].prior = conn.state
          /\ tasks[t].branch = "update" /\ tasks[t].result = "Admitted"
          /\ tasks[t].ip = sessions[conn.state].bound_ip
          /\ tasks[t].doneAt = now
    /\ store[conn.uuid].sess = conn.state
    /\ sessions[conn.state].is_connected
    /\ ACTIVE_CONNECTIONS[conn.uuid] = now

(* C33: a sweep never removes a fresh entry.  Every identity that a      *)
(* step of cleanup_expired_connections removes from ACTIVE_CONNECTIONS has *)
(* at that moment an entry older than 60 time units, so an identity seen   *)
(* again between the scan and the removal stays in the map.                *)
C33_SweepRemovesOnlyStale ==
    [][ \A u \in Uuids :
          (/\ sweep.pc = "remove" /\ sweep' # sweep
           /\ ACTIVE_CONNECTIONS[u] # Absent
           /\ ACTIVE_CONNECTIONS'[u] = Absent)
             => now - ACTIVE_CONNECTIONS[u] > ExpireAfter ]_vars

(* C34: the buckets of one session are independent.  A call on a service *)
(* the session has no bucket for builds a full bucket for that service and *)
(* takes its first token from it; no step of a call changes the bucket the *)
(* session holds for another service or the tokens in it; and a call is    *)
(* denied for quota only when the bucket of its own service is empty.      *)
C34_BucketsIndependent ==
    [][ \A t \in Tasks :
          LET c == tasks[t].client
              y == tasks[t].rule
          IN  /\ (tasks[t].pc = "bucket_insert" /\ tasks'[t] # tasks[t]) =>
                    /\ sessions[c].buckets[y] = 0
                    /\ sessions'[c].buckets[y] = tasks[t].bucket
                    /\ Tokens(tasks[t].bucket) = RULE_REGISTRY[y].burst
                    /\ buckets[tasks[t].bucket].checks = 0
              /\ (/\ tasks[t].pc \in {"get_bucket", "bucket_insert", "check"}
                  /\ tasks'[t] # tasks[t]) =>
                    \A x \in Services \ {y} :
                       /\ sessions'[c].buckets[x] = sessions[c].buckets[x]
                       /\ sessions[c].buckets[x] # 0 =>
                             buckets'[sessions[c].buckets[x]] = buckets[sessions[c].buckets[x]]
              /\ (tasks[t].pc = "check" /\ tasks'[t] # tasks[t]) =>
                    /\ tasks[t].bucket = sessions[c].buckets[y]
                    /\ tasks'[t].err = "ResourceExhausted" <=> Tokens(tasks[t].bucket) = 0
                    /\ (tasks'[t].ordinal = 1 /\ tasks'[t].since = 0) =>
                          /\ tasks'[t].pc = "get_with"
                          /\ TokensOf(buckets'[tasks[t].bucket], now')
                                 = RULE_REGISTRY[y].burst - 1 ]_vars

\* a client provisioned through "ankr" emptied that bucket; its first call
\* on "metadata" was then admitted and took one of the five tokens of a
\* new bucket
C34_Witness ==
    \E t \in Tasks :
        /\ tasks[t].pc = "done" /\ tasks[t].rule = "metadata" /\ tasks[t].branch = "update"
        /\ tasks[t].ordinal = 1 /\ tasks[t].result = "Admitted" /\ tasks[t].doneAt = now
        /\ Present(tasks[t].uuid)
        /\ BucketOf(tasks[t].uuid, "ankr") # 0
        /\ Tokens(BucketOf(tasks[t].uuid, "ankr")) = 0
        /\ buckets[BucketOf(tasks[t].uuid, "ankr")].checks >= 3
        /\ BucketOf(tasks[t].uuid, "metadata") # 0
        /\ Tokens(BucketOf(tasks[t].uuid, "metadata")) = 4

(* C35: release_conn and force_disconnect on an identity the store       *)
(* returns no entry for, because it was never seen or because its entry    *)
(* expired, end at once and change nothing: no session, no bucket, and the *)
(* entry the identity may still have in ACTIVE_CONNECTIONS stays.          *)
C35_DisconnectOfAbsentIsNoop ==
    [][ (/\ conn' # conn
         /\ conn'.op \in {"release_conn", "force_disconnect"}
         /\ \/ ConnFree /\ ~Present(conn'.uuid)
            \/ conn'.state = 0)
           => /\ conn'.pc = "done" /\ conn'.state = 0
              /\ store' = store
              /\ sessions' = sessions
              /\ buckets' = buckets
              /\ ACTIVE_CONNECTIONS' = ACTIVE_CONNECTIONS ]_vars

\* a disconnect came after the client's entry had expired: the identity is
\* still in ACTIVE_CONNECTIONS and the expired session is still marked
\* connected
C35_Witness ==
    /\ conn.pc = "done" /\ conn.op \in {"release_conn", "force_disconnect"}
    /\ conn.state = 0
    /\ store[conn.uuid].sess # 0 /\ now - store[conn.uuid].accessed > TimeToIdle
    /\ ACTIVE_CONNECTIONS[conn.uuid] # Absent
    /\ sessions[store[conn.uuid].sess].is_connected

\* utils.rs 55: the text returned when no source gives an address
Placeholder == "0.0.0.0"

(* C36: a request from which no address can be derived is not rejected.  *)
(* The extractor returns "0.0.0.0", which has 7 characters and passes the *)
(* length check; the first such call of an identity is admitted and binds *)
(* the identity to "0.0.0.0", and every later call without an address     *)
(* matches that binding, whoever sends it.                                 *)
C36_PlaceholderAdmitted ==
    /\ \A req \in AnonRequests : extract_client_ip(req) = Placeholder
    /\ Len(Placeholder) = MinIpLen
    /\ \A t \in Tasks :
          (tasks[t].pc # "idle" /\ tasks[t].uuid \in {UuidU, UuidV}) =>
              /\ tasks[t].result # "InvalidArgument"
              /\ tasks[t].ip # None
              /\ (tasks[t].pc = "done" /\ tasks[t].ip = Placeholder) =>
                    /\ tasks[t].branch = "init" =>
                          /\ tasks[t].result = "Admitted"
                          /\ BoundOf(tasks[t].uuid) = Placeholder
                    /\ (tasks[t].branch = "update" /\ tasks[t].found = Placeholder) =>
                          tasks[t].result = "Admitted" \/ tasks[t].err = "ResourceExhausted"

\* a client bound to the placeholder by its first call was admitted again
\* without an address
C36_Witness ==
    \E t \in Tasks :
        /\ tasks[t].pc = "done" /\ tasks[t].branch = "update"
        /\ tasks[t].ip = Placeholder /\ tasks[t].found = Placeholder
        /\ tasks[t].result = "Admitted"
        /\ BoundOf(tasks[t].uuid) = Placeholder

====
